---- MODULE Spec2Model ----
(***************************************************************************)
(* Model of realdegrees/rng: the live-camera prefetch buffer manager       *)
(* (src/entropy/livecam.py, class LiveCamSource) and the secret rotation   *)
(* and output derivation of the /rng endpoint (src/rng.py).                *)
(*                                                                         *)
(* Threads call start() and collect() on the LiveCamSource; the jobs that  *)
(* start() and the low-watermark trigger submit to the ThreadPoolExecutor  *)
(* run _fill_continent_buffer on worker threads.  Every shared-memory      *)
(* access of the code (a queue operation, a lock acquisition, a read or    *)
(* write of a flag) is one step, so that the steps interleave as the       *)
(* threads of the program do.                                              *)
(***************************************************************************)
EXTENDS Integers, Sequences, FiniteSets, TLC

\* ------------------------------------------------------------- bounds

\* Largest number of partitions modelled (the code's CONTINENTS lists five).
MaxContinents == 2
\* Number of caller threads (request threads of the host server).
NumThreads == 2
\* Calls (start / collect) a caller thread makes one after the other.
MaxCalls == 2
\* Jobs ever submitted to the executor.
MaxJobs == 3
\* Candidate URLs one discovery returns.
MaxUrls == 2
\* Regions one fetched image is sliced into.
MaxRegionsPerImage == 2
\* Regions ever produced.
MaxRegions == 4
\* Latest clock reading, in seconds after the import of rng.py.
MaxTime == 61
\* Largest width and height of an image given to _slice_regions, and the
\* smallest and largest region_size.
MaxSide == 6
MinRegionSize == 2
MaxRegionSize == 3
\* target_buffer and low_watermark of the modelled LiveCamSource instance.
TargetBuffer == 2
LowWatermark == 1

\* ---------------------------------------------------------- constants

DEFAULT_PREFETCH_WORKERS == 6
ROTATE_EVERY_REQUESTS == 100
ROTATE_EVERY_SECONDS == 30

Threads == 1 .. NumThreads

\* Holder of a lock: nobody, caller thread t, or the worker running job j.
Nobody == <<"nobody", 0>>
Thr(t) == <<"thread", t>>
Job(j) == <<"job", j>>

VARIABLES
    \* LiveCamSource fields
    target_buffer,           \* self._target_buffer
    low_watermark,           \* self._low_watermark
    regions_by_continent,    \* continent -> Queue of regions (FIFO sequence)
    continent_prefetch_lock, \* continent -> holder of the threading.Lock
    continent_prefetching,   \* continent -> bool
    started,                 \* self._started
    startup_complete,        \* self._startup_complete (threading.Event)
    executor,                \* work items of the ThreadPoolExecutor, in submit order
    \* caller threads
    pc,                      \* thread -> position in start() / collect() / rng()
    loc,                     \* thread -> local variables
    \* bookkeeping of the model (history, not program state)
    next_job,                \* number of jobs submitted so far
    next_region,             \* number of regions produced so far
    hist,                    \* enqueued / dequeued / submission history
    \* module state of rng.py
    lock,                    \* holder of the global threading.Lock
    request_counter,
    last_rotation,           \* time.time() of the last rotation, in seconds
    SESSION_SECRET,
    now,                     \* the clock, in seconds
    \* a call of _slice_regions
    img                      \* the image, self._region_size and the result

lc_vars == <<target_buffer, low_watermark, regions_by_continent,
             continent_prefetch_lock, continent_prefetching, started,
             startup_complete, executor, next_job, next_region, hist, img>>

rng_vars == <<lock, request_counter, last_rotation, SESSION_SECRET, now>>

vars == <<target_buffer, low_watermark, regions_by_continent,
          continent_prefetch_lock, continent_prefetching, started,
          startup_complete, executor, pc, loc, next_job, next_region, hist,
          lock, request_counter, last_rotation, SESSION_SECRET, now, img>>

\* ------------------------------------------------------------ helpers

\* CONTINENTS, as the keys of the per-continent dictionaries; the loops of the
\* code visit them in list order, 1 .. NumContinents.
CONTINENTS == DOMAIN regions_by_continent
NumContinents == Cardinality(CONTINENTS)

qsize(c) == Len(regions_by_continent[c])

\* No call of _slice_regions is modelled.
NoImage ==
    [pc |-> "none", width |-> 0, height |-> 0, region_size |-> 0,
     regions |-> <<>>]

\* Locals of rng() outside a request.
NoRequest ==
    [tmp |-> 0, evals |-> 0, should_rotate |-> FALSE, pred_counter |-> 0,
     pred_elapsed |-> 0, rotated |-> FALSE, entry_secret |-> <<>>,
     entry_rotation |-> 0, livecam_entropy |-> <<>>, mac |-> <<>>,
     value |-> <<>>]

\* Locals of a caller thread that is not inside any call and may make n calls.
IdleLocals(n) ==
    [ci |-> 0, current_size |-> 0, combined |-> <<>>, waited |-> FALSE,
     futures |-> <<>>, ret |-> "idle", caller |-> "idle", budget |-> n,
     result |-> "none", rq |-> NoRequest]

JobIds == {executor[i].id : i \in 1 .. Len(executor)}
\* Work items a worker thread is executing (past the first lock acquisition).
RunningJobs == {i \in 1 .. Len(executor) : executor[i].pc # "pending"}

RemoveAt(s, i) == SubSeq(s, 1, i - 1) \o SubSeq(s, i + 1, Len(s))

\* Work item created by executor.submit(self._fill_continent_buffer, c).
NewJob(c, initial) ==
    [id |-> next_job + 1, continent |-> c, pc |-> "pending", urls |-> 0,
     tried |-> 0, regions |-> 0, initial |-> initial, exit |-> "none"]

\* executor.submit: the work item is appended to the executor's queue.
Submit(c, initial) ==
    /\ next_job < MaxJobs
    /\ executor' = Append(executor, NewJob(c, initial))
    /\ next_job' = next_job + 1

\* History of a source of n partitions whose queues each hold k regions;
\* duplicate[c] records that a job of c has returned at its test of the flag.
InitHist(n, k) ==
    [enqueued |-> [c \in 1 .. n |-> k],
     dequeued |-> [c \in 1 .. n |-> <<>>],
     triggered |-> [c \in 1 .. n |-> 0],
     duplicate |-> [c \in 1 .. n |-> FALSE],
     observed |-> <<>>,
     rotations |-> <<>>]

\* ---------------------------------------------------------------- Init

\* LiveCamSource.__init__ for n partitions.
InitLiveCam(n, target, low) ==
    /\ target_buffer = target
    /\ low_watermark = low
    /\ regions_by_continent = [c \in 1 .. n |-> <<>>]
    /\ continent_prefetch_lock = [c \in 1 .. n |-> Nobody]
    /\ continent_prefetching = [c \in 1 .. n |-> FALSE]
    /\ started = FALSE
    /\ startup_complete = FALSE
    /\ executor = <<>>
    /\ next_job = 0
    /\ next_region = 0
    /\ hist = InitHist(n, 0)
    /\ img = NoImage

\* The runs explored from construction: one caller thread making MaxCalls
\* calls in a row on a source of MaxContinents partitions, or every thread
\* making one call, concurrently, on a source of one partition.  The worker
\* threads of the executor run concurrently with the callers in both.
SequentialCaller ==
    [n |-> MaxContinents,
     budget |-> [t \in Threads |-> IF t = 1 THEN MaxCalls ELSE 0]]
ConcurrentCallers ==
    [n |-> 1, budget |-> [t \in Threads |-> 1]]

\* Module state of rng.py after import: the counter at 0, last_rotation the
\* time of the import, the secret the hash of the seed.
InitModule ==
    /\ lock = Nobody
    /\ request_counter = 0
    /\ last_rotation = 0
    /\ now = 0
    /\ SESSION_SECRET = <<"seed">>

InitScenario(sc) ==
    /\ InitModule
    /\ InitLiveCam(sc.n, TargetBuffer, LowWatermark)
    /\ pc = [t \in Threads |-> "idle"]
    /\ loc = [t \in Threads |-> IdleLocals(sc.budget[t])]

Init == \E sc \in {SequentialCaller, ConcurrentCallers} : InitScenario(sc)

\* ------------------------------------------- _fill_continent_buffer (jobs)

\* A worker thread takes a work item and enters
\* with self._continent_prefetch_lock[continent]:  (acquire)
\* Work items are handed to idle workers in submit order; the workers then
\* race for the lock, so any taken item may be the first to acquire it.
fill_acquire(i) ==
    LET c == executor[i].continent IN
    /\ executor[i].pc = "pending"
    /\ Cardinality({k \in 1 .. i - 1 : executor[k].pc = "pending"})
           + Cardinality(RunningJobs) < DEFAULT_PREFETCH_WORKERS
    /\ continent_prefetch_lock[c] = Nobody
    /\ continent_prefetch_lock' =
           [continent_prefetch_lock EXCEPT ![c] = Job(executor[i].id)]
    /\ executor' = [executor EXCEPT ![i].pc = "tas"]
    /\ UNCHANGED <<rng_vars, img>>
    /\ UNCHANGED <<target_buffer, low_watermark, regions_by_continent,
                   continent_prefetching, started, startup_complete, pc, loc,
                   next_job, next_region, hist>>

\* A test-and-set that never finds the flag set.
AlreadyPrefetching_NoTest(c) == FALSE

\* if self._continent_prefetching[continent]:   (read under the lock)
AlreadyPrefetching(c) == continent_prefetching[c]

\* A job that keeps the lock from its test-and-set on, through the body.
AfterWithBlock_Held(holder) == holder

\* The end of the "with self._continent_prefetch_lock[continent]:" block, by
\* the return or after the flag is set: the lock is released.
AfterWithBlock(holder) == Nobody

\* A return at the test of the flag that runs the cleanup of the finally
\* block, as if the test were inside the try block.
FlagAfterDuplicate_Cleared(flag) == FALSE

\* if self._continent_prefetching[continent]: return
\* The return is before the try block: the finally block does not run and the
\* flag keeps its value.
FlagAfterDuplicate(flag) == flag

\* if self._continent_prefetching[continent]: return
\* self._continent_prefetching[continent] = True      (and release)
fill_test_and_set(i) ==
    LET c == executor[i].continent IN
    /\ executor[i].pc = "tas"
    /\ continent_prefetch_lock' =
           [continent_prefetch_lock EXCEPT ![c] = AfterWithBlock(@)]
    /\ IF AlreadyPrefetching(c)
       THEN /\ executor' = RemoveAt(executor, i)
            /\ continent_prefetching' =
                   [continent_prefetching EXCEPT ![c] = FlagAfterDuplicate(@)]
            /\ hist' = [hist EXCEPT !.duplicate[c] = TRUE]
       ELSE /\ continent_prefetching' =
                   [continent_prefetching EXCEPT ![c] = TRUE]
            /\ executor' = [executor EXCEPT ![i].pc = "size"]
            /\ UNCHANGED hist
    /\ UNCHANGED <<rng_vars, img>>
    /\ UNCHANGED <<target_buffer, low_watermark, regions_by_continent, started,
                   startup_complete, pc, loc, next_job, next_region>>

\* A try block whose exception leaves the job without running the cleanup.
OnExit_NoFinally(why) == IF why = "raise" THEN "dead" ELSE "fin_lock"

\* try: ... finally: every way out of the try block (a return, the end of the
\* loop, an exception) goes to the finally block.
OnExit(why) == "fin_lock"

\* A job that stops where it finds no URLs, without its cleanup.
OnNoUrls_Stuck == "dead"

\* if not urls: return      (inside the try block)
OnNoUrls == OnExit("no_urls")

\* current_size = queue.qsize(); if current_size >= self._target_buffer: return
\* urls = self._discover_continent_images(continent); if not urls: return
\* _discover_continent_images returns [] when the request or the parse fails;
\* it reads no shared state, so its result is drawn in the same step.
fill_read_size(i) ==
    LET c == executor[i].continent IN
    /\ executor[i].pc = "size"
    /\ IF qsize(c) >= target_buffer
       THEN executor' = [executor EXCEPT
                ![i].exit = "at_target", ![i].pc = OnExit("at_target")]
       ELSE \E n \in 0 .. MaxUrls :
                executor' = [executor EXCEPT
                    ![i].urls = n,
                    ![i].exit = IF n = 0 THEN "no_urls" ELSE "none",
                    ![i].pc = IF n = 0 THEN OnNoUrls ELSE "loop"]
    /\ UNCHANGED <<rng_vars, img>>
    /\ UNCHANGED <<target_buffer, low_watermark, regions_by_continent,
                   continent_prefetch_lock, continent_prefetching, started,
                   startup_complete, pc, loc, next_job, next_region, hist>>

\* What one _fetch_and_enqueue_for_continent(url) does before its puts:
\* _fetch_image returns None ("none"), or an image that _slice_regions cuts
\* into k regions (<<"image", k>>), or an exception escapes ("raise").
FetchOutcomes ==
    {<<"none", 0>>, <<"raise", 0>>}
        \cup {<<"image", k>> : k \in 0 .. MaxRegionsPerImage}

\* A job that gives up at the first candidate it cannot fetch.
OnFetchFailed_Abort == "fin_lock"

\* _fetch_image caught the exception and returned None, so that
\* _fetch_and_enqueue_for_continent returns False: the for loop goes on.
OnFetchFailed == "loop"

\* for url in urls: if queue.qsize() >= self._target_buffer: break
\*     self._fetch_and_enqueue_for_continent(url, continent)
\* urls counts the candidates left and tried those taken; both are locals of
\* the loop and are dropped where the job leaves it.
fill_loop(i) ==
    LET c == executor[i].continent IN
    /\ executor[i].pc = "loop"
    /\ IF executor[i].urls = 0
       THEN /\ executor' = [executor EXCEPT
                   ![i].tried = 0,
                   ![i].exit = "exhausted", ![i].pc = OnExit("exhausted")]
            /\ UNCHANGED next_region
       ELSE IF qsize(c) >= target_buffer
       THEN /\ executor' = [executor EXCEPT
                   ![i].urls = 0, ![i].tried = 0,
                   ![i].exit = "target_reached",
                   ![i].pc = OnExit("target_reached")]
            /\ UNCHANGED next_region
       ELSE \E o \in FetchOutcomes :
            /\ next_region + o[2] <= MaxRegions
            /\ next_region' = next_region + o[2]
            /\ executor' = [executor EXCEPT
                   ![i].urls = IF o[1] = "raise" THEN 0 ELSE @ - 1,
                   ![i].tried = IF o[1] = "raise" THEN 0 ELSE @ + 1,
                   ![i].regions = o[2],
                   ![i].exit = IF o[1] = "raise" THEN "raise" ELSE "none",
                   ![i].pc = IF o[1] = "raise" THEN OnExit("raise")
                             ELSE IF o[1] = "none" THEN OnFetchFailed
                             ELSE IF o[2] = 0 THEN "loop" ELSE "put"]
    /\ UNCHANGED <<rng_vars, img>>
    /\ UNCHANGED <<target_buffer, low_watermark, regions_by_continent,
                   continent_prefetch_lock, continent_prefetching, started,
                   startup_complete, pc, loc, next_job, hist>>

\* for region in regions: queue.put(region)
\* The region put is named by its place in the partition's enqueue order.
fill_put(i) ==
    LET c == executor[i].continent
        r == hist.enqueued[c] + 1 IN
    /\ executor[i].pc = "put"
    /\ regions_by_continent' =
           [regions_by_continent EXCEPT ![c] = Append(@, r)]
    /\ hist' = [hist EXCEPT !.enqueued[c] = r]
    /\ executor' = [executor EXCEPT
           ![i].regions = @ - 1,
           ![i].pc = IF executor[i].regions = 1 THEN "loop" ELSE "put"]
    /\ UNCHANGED <<rng_vars, img>>
    /\ UNCHANGED <<target_buffer, low_watermark, continent_prefetch_lock,
                   continent_prefetching, started, startup_complete, pc, loc,
                   next_job, next_region>>

\* finally: with self._continent_prefetch_lock[continent]:  (acquire)
fill_finally_acquire(i) ==
    LET c == executor[i].continent IN
    /\ executor[i].pc = "fin_lock"
    /\ continent_prefetch_lock[c] = Nobody
    /\ continent_prefetch_lock' =
           [continent_prefetch_lock EXCEPT ![c] = Job(executor[i].id)]
    /\ executor' = [executor EXCEPT ![i].pc = "fin"]
    /\ UNCHANGED <<rng_vars, img>>
    /\ UNCHANGED <<target_buffer, low_watermark, regions_by_continent,
                   continent_prefetching, started, startup_complete, pc, loc,
                   next_job, next_region, hist>>

\* self._continent_prefetching[continent] = False   (and release; job ends)
fill_finally(i) ==
    LET c == executor[i].continent IN
    /\ executor[i].pc = "fin"
    /\ continent_prefetching' = [continent_prefetching EXCEPT ![c] = FALSE]
    /\ continent_prefetch_lock' = [continent_prefetch_lock EXCEPT ![c] = Nobody]
    /\ executor' = RemoveAt(executor, i)
    /\ UNCHANGED <<rng_vars, img>>
    /\ UNCHANGED <<target_buffer, low_watermark, regions_by_continent, started,
                   startup_complete, pc, loc, next_job, next_region, hist>>

fill_continent_buffer ==
    \E i \in 1 .. Len(executor) :
        \/ fill_acquire(i)
        \/ fill_test_and_set(i)
        \/ fill_read_size(i)
        \/ fill_loop(i)
        \/ fill_put(i)
        \/ fill_finally_acquire(i)
        \/ fill_finally(i)

\* --------------------------------------------------------------- start()

\* A caller thread calls start():  if self._started: return
call_start(t) ==
    /\ pc[t] = "idle"
    /\ loc[t].budget > 0
    /\ pc' = [pc EXCEPT ![t] = IF started THEN "idle" ELSE "start_set"]
    /\ loc' = [loc EXCEPT ![t].budget = @ - 1, ![t].ret = "idle",
                          ![t].result = "none"]
    /\ UNCHANGED <<lc_vars, rng_vars>>

\* A start() that goes from the flag to the event without the initial fill.
AfterStarted_NoFill == "start_wait"

\* After self._started = True: futures = []; for continent in CONTINENTS: ...
AfterStarted == "start_submit"

\* self._started = True
start_set(t) ==
    /\ pc[t] = "start_set"
    /\ started' = TRUE
    /\ pc' = [pc EXCEPT ![t] = AfterStarted]
    /\ loc' = [loc EXCEPT ![t].ci = 1, ![t].futures = <<>>]
    /\ UNCHANGED <<rng_vars, img>>
    /\ UNCHANGED <<target_buffer, low_watermark, regions_by_continent,
                   continent_prefetch_lock, continent_prefetching,
                   startup_complete, executor, next_job, next_region, hist>>

\* for continent in CONTINENTS: future = self._executor.submit(...)
start_submit(t) ==
    LET c == loc[t].ci IN
    /\ pc[t] = "start_submit"
    /\ Submit(c, TRUE)
    /\ loc' = [loc EXCEPT ![t].futures = Append(@, <<c, next_job + 1>>),
                          ![t].ci = IF c = NumContinents THEN 0 ELSE c + 1]
    /\ pc' = [pc EXCEPT ![t] =
           IF c = NumContinents THEN "start_wait" ELSE "start_submit"]
    /\ UNCHANGED <<rng_vars, img>>
    /\ UNCHANGED <<target_buffer, low_watermark, regions_by_continent,
                   continent_prefetch_lock, continent_prefetching, started,
                   startup_complete, next_region, hist>>

\* for continent, future in futures: future.result(timeout=self._timeout * 5)
\* Each wait ends when its job has ended or when its timeout expires; the
\* job's exception and the TimeoutError are caught alike.  The loop reads and
\* writes nothing else, so it is one step, taken at any time.
\* self._startup_complete.set()
start_ready(t) ==
    /\ pc[t] = "start_wait"
    /\ startup_complete' = TRUE
    /\ pc' = [pc EXCEPT ![t] = loc[t].ret]
    /\ loc' = [loc EXCEPT ![t].futures = <<>>, ![t].ret = "idle"]
    /\ UNCHANGED <<rng_vars, img>>
    /\ UNCHANGED <<target_buffer, low_watermark, regions_by_continent,
                   continent_prefetch_lock, continent_prefetching, started,
                   executor, next_job, next_region, hist>>

\* ------------------------------------------------------------- collect()

\* A collect() that raises as soon as one partition gave nothing.
NoEntropy_AnyMissing(combined) == Len(combined) < NumContinents

\* if not combined_entropy:
NoEntropy(combined) == combined = <<>>

\* Where the loop over CONTINENTS of _check_all_continents goes after
\* continent c: the next continent, or the end of collect():
\* if not combined_entropy: raise RuntimeError(...)
\* return bytes(combined_entropy)
AfterCheck(t, c) ==
    IF c = NumContinents
    THEN /\ pc' = [pc EXCEPT ![t] = loc[t].caller]
         /\ loc' = [loc EXCEPT
                ![t].ci = 0, ![t].current_size = 0, ![t].caller = "idle",
                ![t].result = IF NoEntropy(loc[t].combined)
                              THEN "raised" ELSE "returned"]
    ELSE /\ pc' = [pc EXCEPT ![t] = "check_size"]
         /\ loc' = [loc EXCEPT ![t].ci = c + 1, ![t].current_size = 0]

\* Entry of collect(), called from `caller` with the locals l:
\* if not self._started: self.start()
collect_entry(t, caller, l) ==
    /\ pc' = [pc EXCEPT ![t] =
           IF started THEN "collect_wait" ELSE "start_set"]
    /\ loc' = [loc EXCEPT ![t] = [l EXCEPT
           !.result = "none", !.combined = <<>>, !.caller = caller,
           !.ret = IF started THEN "idle" ELSE "collect_wait"]]

\* A caller thread calls collect() directly.
call_collect(t) ==
    /\ pc[t] = "idle"
    /\ loc[t].budget > 0
    /\ collect_entry(t, "idle", [loc[t] EXCEPT !.budget = @ - 1])
    /\ UNCHANGED <<lc_vars, rng_vars>>

\* self._startup_complete.wait(timeout=60): returns when the event is set or
\* when the timeout expires, whichever comes first.
collect_wait(t) ==
    /\ pc[t] = "collect_wait"
    /\ pc' = [pc EXCEPT ![t] = "collect_get"]
    /\ loc' = [loc EXCEPT ![t].ci = 1, ![t].combined = <<>>,
                          ![t].waited = ~startup_complete]
    /\ UNCHANGED <<lc_vars, rng_vars>>

\* A get that takes the region put last (a LifoQueue).
get_nowait_Last(q) ==
    [region |-> q[Len(q)], rest |-> SubSeq(q, 1, Len(q) - 1)]

\* A get that returns the head and leaves it in the queue.
get_nowait_Peek(q) == [region |-> Head(q), rest |-> q]

\* queue.get_nowait() on a non-empty Queue: the head, and what stays queued.
get_nowait(q) == [region |-> Head(q), rest |-> Tail(q)]

\* for continent in CONTINENTS: region = queue.get_nowait() ... except Empty
collect_get(t) ==
    LET c == loc[t].ci
        q == regions_by_continent[c] IN
    /\ pc[t] = "collect_get"
    /\ IF q = <<>>
       THEN /\ UNCHANGED <<regions_by_continent, hist>>
            /\ loc' = [loc EXCEPT ![t].ci =
                   IF c = NumContinents THEN 1 ELSE c + 1]
       ELSE /\ regions_by_continent' =
                   [regions_by_continent EXCEPT ![c] = get_nowait(q).rest]
            /\ hist' = [hist EXCEPT
                   !.dequeued[c] = Append(@, get_nowait(q).region)]
            /\ loc' = [loc EXCEPT
                   ![t].combined = Append(@, <<c, get_nowait(q).region>>),
                   ![t].ci = IF c = NumContinents THEN 1 ELSE c + 1]
    /\ pc' = [pc EXCEPT ![t] =
           IF c = NumContinents THEN "check_size" ELSE "collect_get"]
    /\ UNCHANGED <<rng_vars, img>>
    /\ UNCHANGED <<target_buffer, low_watermark, continent_prefetch_lock,
                   continent_prefetching, started, startup_complete, executor,
                   next_job, next_region>>

\* A trigger that never finds the queue low.
BelowWatermark_Never(size) == FALSE

\* A trigger that also fires with the queue exactly at the low watermark.
BelowWatermark_Inclusive(size) == size <= low_watermark

\* if current_size < self._low_watermark:
BelowWatermark(size) == size < low_watermark

\* _check_and_refill_continent: current_size = queue.qsize()
\* if current_size < self._low_watermark: ...
check_size(t) ==
    LET c == loc[t].ci IN
    /\ pc[t] = "check_size"
    /\ IF BelowWatermark(qsize(c))
       THEN /\ pc' = [pc EXCEPT ![t] = "check_lock"]
            /\ loc' = [loc EXCEPT ![t].current_size = qsize(c)]
       ELSE AfterCheck(t, c)
    /\ UNCHANGED <<lc_vars, rng_vars>>

\* with self._continent_prefetch_lock[continent]:  (acquire)
check_lock(t) ==
    LET c == loc[t].ci IN
    /\ pc[t] = "check_lock"
    /\ continent_prefetch_lock[c] = Nobody
    /\ continent_prefetch_lock' =
           [continent_prefetch_lock EXCEPT ![c] = Thr(t)]
    /\ pc' = [pc EXCEPT ![t] = "check_flag"]
    /\ UNCHANGED <<rng_vars, img>>
    /\ UNCHANGED <<target_buffer, low_watermark, regions_by_continent,
                   continent_prefetching, started, startup_complete, executor,
                   loc, next_job, next_region, hist>>

\* if self._continent_prefetching[continent]: return      (and release)
check_flag(t) ==
    LET c == loc[t].ci IN
    /\ pc[t] = "check_flag"
    /\ continent_prefetch_lock' = [continent_prefetch_lock EXCEPT ![c] = Nobody]
    /\ IF AlreadyPrefetching(c)
       THEN AfterCheck(t, c)
       ELSE /\ pc' = [pc EXCEPT ![t] = "check_submit"]
            /\ UNCHANGED loc
    /\ UNCHANGED <<rng_vars, img>>
    /\ UNCHANGED <<target_buffer, low_watermark, regions_by_continent,
                   continent_prefetching, started, startup_complete, executor,
                   next_job, next_region, hist>>

\* self._executor.submit(self._fill_continent_buffer, continent)
check_submit(t) ==
    LET c == loc[t].ci IN
    /\ pc[t] = "check_submit"
    /\ Submit(c, FALSE)
    /\ hist' = [hist EXCEPT !.triggered[c] = @ + 1]
    /\ AfterCheck(t, c)
    /\ UNCHANGED <<rng_vars, img>>
    /\ UNCHANGED <<target_buffer, low_watermark, regions_by_continent,
                   continent_prefetch_lock, continent_prefetching, started,
                   startup_complete, next_region>>

start ==
    \E t \in Threads :
        \/ call_start(t)
        \/ start_set(t)
        \/ start_submit(t)
        \/ start_ready(t)

\* The steps of a collect() that has been entered.
collect_steps ==
    \E t \in Threads :
        \/ collect_wait(t)
        \/ collect_get(t)
        \/ check_size(t)
        \/ check_lock(t)
        \/ check_flag(t)
        \/ check_submit(t)

collect == (\E t \in Threads : call_collect(t)) \/ collect_steps

Next == start \/ collect \/ fill_continent_buffer

Spec == Init /\ [][Next]_vars

\* The drain scenario: a started, ready source with target_buffer = 4 and
\* low_watermark = 2 whose partitions each hold exactly 4 regions, no refill
\* in progress, and one caller making four collect() calls in a row.
InitDrain ==
    /\ target_buffer = 4
    /\ low_watermark = 2
    /\ regions_by_continent = [c \in 1 .. MaxContinents |-> <<1, 2, 3, 4>>]
    /\ continent_prefetch_lock = [c \in 1 .. MaxContinents |-> Nobody]
    /\ continent_prefetching = [c \in 1 .. MaxContinents |-> FALSE]
    /\ started = TRUE
    /\ startup_complete = TRUE
    /\ executor = <<>>
    /\ next_job = 0
    /\ next_region = 0
    /\ hist = InitHist(MaxContinents, 4)
    /\ img = NoImage
    /\ InitModule
    /\ pc = [t \in Threads |-> "idle"]
    /\ loc = [t \in Threads |-> IdleLocals(IF t = 1 THEN 4 ELSE 0)]

NextSteady == collect \/ fill_continent_buffer

SpecDrain == InitDrain /\ [][NextSteady]_vars

\* ------------------------------------------------------------ rng.py

\* hmac.new(key, msg, hashlib.sha256).digest(): the digest is kept as the
\* term of its key and message, so that digests of different inputs differ.
Hmac(key, msg) == <<"hmac", key, msg>>

\* The first 8 bytes of a digest, mac[:8].  Which bytes a given key and
\* message hash to is not computed: any 8 bytes may come out, and the model
\* draws them from TagPrefixes, which holds the smallest and largest prefixes
\* and those around 2^64 - 1024.
TagPrefixes ==
    {<<0, 0, 0, 0, 0, 0, 0, 0>>,
     <<128, 0, 0, 0, 0, 0, 0, 1>>,
     <<255, 255, 255, 255, 255, 255, 251, 255>>,
     <<255, 255, 255, 255, 255, 255, 252, 0>>,
     <<255, 255, 255, 255, 255, 255, 255, 255>>}

\* The 64 bits of int.from_bytes(mac[:8], "big"), most significant first.
TagBits(tag) ==
    [k \in 1 .. 64 |-> (tag[((k - 1) \div 8) + 1] \div 2 ^ (7 - ((k - 1) % 8))) % 2]

\* A 53-bit significand plus one unit in the last place; the carry out of an
\* all-ones significand is reported by carry.
Increment(sig) ==
    IF \A k \in 1 .. 53 : sig[k] = 1
    THEN [sig |-> [k \in 1 .. 53 |-> IF k = 1 THEN 1 ELSE 0], carry |-> 1]
    ELSE LET z == CHOOSE k \in 1 .. 53 :
                      sig[k] = 0 /\ \A j \in k + 1 .. 53 : sig[j] = 1
         IN [sig |-> [k \in 1 .. 53 |->
                         IF k < z THEN sig[k] ELSE IF k = z THEN 1 ELSE 0],
             carry |-> 0]

\* n / 2**64 for the 64-bit integer n with the given bits: Python's true
\* division of ints, the double nearest to the quotient, ties to even.  The
\* double is 0, or 0.sig (binary, sig[1] = 1) times 2^exp.
TrueDivide(bits) ==
    IF \A k \in 1 .. 64 : bits[k] = 0
    THEN [zero |-> TRUE, exp |-> 0, sig |-> [k \in 1 .. 53 |-> 0]]
    ELSE LET p == CHOOSE k \in 1 .. 64 :
                      bits[k] = 1 /\ \A j \in 1 .. k - 1 : bits[j] = 0
             bit(k) == IF k <= 64 THEN bits[k] ELSE 0
             sig0 == [k \in 1 .. 53 |-> bit(p + k - 1)]
             half == bit(p + 53) = 1
             sticky == \E k \in p + 54 .. 64 : bits[k] = 1
             up == half /\ (sticky \/ sig0[53] = 1)
             inc == Increment(sig0)
         IN IF up
            THEN [zero |-> FALSE, exp |-> 1 - p + inc.carry, sig |-> inc.sig]
            ELSE [zero |-> FALSE, exp |-> 1 - p, sig |-> sig0]

\* A rotation predicate that also fires when exactly ROTATE_EVERY_SECONDS
\* have elapsed.
should_rotate_AtThreshold(counter, elapsed) ==
    \/ counter % ROTATE_EVERY_REQUESTS = 0
    \/ elapsed >= ROTATE_EVERY_SECONDS

\* should_rotate = (request_counter % ROTATE_EVERY_REQUESTS == 0
\*                  or time.time() - last_rotation > ROTATE_EVERY_SECONDS)
should_rotate(counter, elapsed) ==
    \/ counter % ROTATE_EVERY_REQUESTS = 0
    \/ elapsed > ROTATE_EVERY_SECONDS

\* A lock that lets a thread in while another holds it.
GlobalLockFree_Always == TRUE

\* with lock:  the acquire returns once no thread holds the lock.
GlobalLockFree == lock = Nobody

\* A derivation keyed by the secret the request found on entry.
DerivationKey_Stale(t) == loc[t].rq.entry_secret

\* mac = hmac.new(SESSION_SECRET, entropy, hashlib.sha256): the key is the
\* global as it is when this line runs.
DerivationKey(t) == SESSION_SECRET

\* A handler that lets the exception of collect() escape the request.
OnCollectRaised_Propagate == "rng_error"

\* try: livecam_entropy = entropy_pool.livecam.collect()
\* except Exception: pass
OnCollectRaised == "rng_derive"

\* What a reading of the clock (time.time(), time.time_ns()) may return: the
\* previous reading, or a later time: exactly ROTATE_EVERY_SECONDS later, or
\* a second more.  The clock is read only by rng() and rotate_secret(), so it
\* is advanced at the readings.
ClockReadings ==
    {now + d : d \in {0, ROTATE_EVERY_SECONDS, ROTATE_EVERY_SECONDS + 1}}
        \cap 0 .. MaxTime

\* A request arrives: the server runs rng() on thread t.
call_rng(t) ==
    /\ pc[t] = "idle"
    /\ loc[t].budget > 0
    /\ pc' = [pc EXCEPT ![t] = "rng_lock"]
    /\ loc' = [loc EXCEPT ![t].budget = @ - 1, ![t].result = "none",
                          ![t].rq = NoRequest]
    /\ UNCHANGED <<lc_vars, rng_vars>>

\* with lock:  (acquire)
rng_acquire(t) ==
    /\ pc[t] = "rng_lock"
    /\ GlobalLockFree
    /\ lock' = Thr(t)
    /\ pc' = [pc EXCEPT ![t] = "rng_load"]
    /\ loc' = [loc EXCEPT ![t].rq.entry_secret = SESSION_SECRET,
                          ![t].rq.entry_rotation = last_rotation]
    /\ UNCHANGED <<lc_vars, request_counter, last_rotation, SESSION_SECRET,
                   now>>

\* request_counter += 1: the read of the global ...
rng_load(t) ==
    /\ pc[t] = "rng_load"
    /\ pc' = [pc EXCEPT ![t] = "rng_store"]
    /\ loc' = [loc EXCEPT ![t].rq.tmp = request_counter]
    /\ UNCHANGED <<lc_vars, rng_vars>>

\* ... and the write of the sum.
rng_store(t) ==
    /\ pc[t] = "rng_store"
    /\ request_counter' = loc[t].rq.tmp + 1
    /\ pc' = [pc EXCEPT ![t] = "rng_predicate"]
    /\ hist' = [hist EXCEPT !.observed = Append(@, loc[t].rq.tmp + 1)]
    /\ UNCHANGED <<target_buffer, low_watermark, regions_by_continent,
                   continent_prefetch_lock, continent_prefetching, started,
                   startup_complete, executor, next_job, next_region, loc,
                   lock, last_rotation, SESSION_SECRET, now, img>>

\* should_rotate = (...); if should_rotate: rotate_secret()
rng_predicate(t) ==
    /\ pc[t] = "rng_predicate"
    /\ \E time \in ClockReadings :
           LET r == should_rotate(request_counter, time - last_rotation) IN
           /\ now' = time
           /\ pc' = [pc EXCEPT ![t] =
                  IF r THEN "rng_rotate" ELSE "rng_collect"]
           /\ loc' = [loc EXCEPT ![t].rq.should_rotate = r,
                                 ![t].rq.evals = @ + 1,
                                 ![t].rq.pred_counter = request_counter,
                                 ![t].rq.pred_elapsed = time - last_rotation]
    /\ UNCHANGED <<lc_vars, lock, request_counter, last_rotation,
                   SESSION_SECRET>>

\* rotate_secret(): SESSION_SECRET = hmac.new(SESSION_SECRET, rotation_entropy,
\* hashlib.sha256).digest(); last_rotation = time.time()
\* The bytes of os.urandom and of the jitter sources are left out of the
\* message term; the counter and the clock reading are in it.
rotate_secret(t) ==
    /\ pc[t] = "rng_rotate"
    /\ \E time \in ClockReadings :
           LET rotation_entropy ==
                   [request_counter |-> request_counter, time_ns |-> time]
           IN
           /\ now' = time
           /\ SESSION_SECRET' = Hmac(SESSION_SECRET, rotation_entropy)
           /\ last_rotation' = time
           /\ hist' = [hist EXCEPT !.rotations = Append(@,
                  [from |-> SESSION_SECRET,
                   to |-> Hmac(SESSION_SECRET, rotation_entropy), by |-> t])]
    /\ pc' = [pc EXCEPT ![t] = "rng_collect"]
    /\ loc' = [loc EXCEPT ![t].rq.rotated = TRUE]
    /\ UNCHANGED <<target_buffer, low_watermark, regions_by_continent,
                   continent_prefetch_lock, continent_prefetching, started,
                   startup_complete, executor, next_job, next_region,
                   lock, request_counter, img>>

\* if entropy_pool.livecam: try: livecam_entropy = entropy_pool.livecam.collect()
rng_collect(t) ==
    /\ pc[t] = "rng_collect"
    /\ collect_entry(t, "rng_collected", loc[t])
    /\ UNCHANGED <<lc_vars, rng_vars>>

\* collect() has returned its bytes, or raised and the handler has run.
rng_collected(t) ==
    /\ pc[t] = "rng_collected"
    /\ pc' = [pc EXCEPT ![t] =
           IF loc[t].result = "raised" THEN OnCollectRaised ELSE "rng_derive"]
    /\ loc' = [loc EXCEPT ![t].rq.livecam_entropy =
           IF loc[t].result = "raised" THEN <<>> ELSE loc[t].combined]
    /\ UNCHANGED <<lc_vars, rng_vars>>

\* entropy = b"".join([...]); mac = hmac.new(SESSION_SECRET, entropy, ...)
\* value = int.from_bytes(mac[:8], "big") / 2**64
rng_derive(t) ==
    /\ pc[t] = "rng_derive"
    /\ \E time \in ClockReadings, tag \in TagPrefixes :
           LET entropy == [livecam_entropy |-> loc[t].rq.livecam_entropy,
                           request_counter |-> request_counter,
                           time_ns |-> time]
           IN
           /\ now' = time
           /\ loc' = [loc EXCEPT
                  ![t].rq.mac = [key |-> DerivationKey(t), msg |-> entropy,
                                 first8 |-> tag],
                  ![t].rq.value = TrueDivide(TagBits(tag))]
    /\ pc' = [pc EXCEPT ![t] = "rng_respond"]
    /\ UNCHANGED <<lc_vars, lock, request_counter, last_rotation,
                   SESSION_SECRET>>

\* return JSONResponse({"random": value}, ...)   (and release of the lock)
rng_respond(t) ==
    /\ pc[t] = "rng_respond"
    /\ lock' = Nobody
    /\ pc' = [pc EXCEPT ![t] = "idle"]
    /\ loc' = [loc EXCEPT ![t].rq = NoRequest, ![t].combined = <<>>,
                          ![t].result = "none"]
    /\ UNCHANGED <<lc_vars, request_counter, last_rotation, SESSION_SECRET,
                   now>>

rng ==
    \E t \in Threads :
        \/ call_rng(t)
        \/ rng_acquire(t)
        \/ rng_load(t)
        \/ rng_store(t)
        \/ rng_predicate(t)
        \/ rotate_secret(t)
        \/ rng_collect(t)
        \/ rng_collected(t)
        \/ rng_derive(t)
        \/ rng_respond(t)

\* The server after its lifespan hook has run start(): the source is started
\* and ready with one partition, whose initial fill found nothing or one
\* region; request_counter is 0 or two short of ROTATE_EVERY_REQUESTS; every
\* thread serves one request, and each request may submit a job.
InitServing(k, counter, sliced) ==
    /\ target_buffer = TargetBuffer
    /\ low_watermark = LowWatermark
    /\ regions_by_continent = [c \in 1 .. 1 |-> [j \in 1 .. k |-> j]]
    /\ hist = InitHist(1, k)
    /\ img = NoImage
    /\ continent_prefetch_lock = [c \in 1 .. 1 |-> Nobody]
    /\ continent_prefetching = [c \in 1 .. 1 |-> FALSE]
    /\ started = TRUE
    /\ startup_complete = TRUE
    /\ executor = <<>>
    /\ next_job = MaxJobs - NumThreads
    /\ next_region = sliced
    /\ lock = Nobody
    /\ request_counter = counter
    /\ last_rotation = 0
    /\ now = 0
    /\ SESSION_SECRET = <<"seed">>
    /\ pc = [t \in Threads |-> "idle"]
    /\ loc = [t \in Threads |-> IdleLocals(1)]

InitRng ==
    \E k \in 0 .. 1, counter \in {0, ROTATE_EVERY_REQUESTS - 2} :
        InitServing(k, counter, 0)

NextRng == rng \/ collect_steps \/ fill_continent_buffer

SpecRng == InitRng /\ [][NextRng]_vars

\* The server threads and the worker threads of the pool keep running; the
\* runs start with the partition empty, so that the first collect() raises.
FairSpecRng ==
    /\ InitServing(0, ROTATE_EVERY_REQUESTS - 2, MaxRegions - 1)
    /\ [][NextRng]_vars
    /\ WF_vars(rng)
    /\ WF_vars(collect_steps)
    /\ WF_vars(fill_continent_buffer)

\* The worker threads of the pool keep running the jobs they have taken, and
\* a caller thread inside "with lock:" runs on to the release.
ReleaseCheckLock == \E t \in Threads : check_flag(t)
\* Checked on the runs with concurrent callers.
FairSpec ==
    /\ InitScenario(ConcurrentCallers)
    /\ [][Next]_vars
    /\ WF_vars(fill_continent_buffer)
    /\ WF_vars(ReleaseCheckLock)

\* The caller threads keep running the calls they are in, and the worker
\* threads the jobs they have taken.
FairSpecStart ==
    /\ InitScenario(ConcurrentCallers)
    /\ [][Next]_vars
    /\ WF_vars(start)
    /\ WF_vars(collect_steps)
    /\ WF_vars(fill_continent_buffer)

\* ------------------------------------------------------ _slice_regions

\* range(0, stop, step): 0, step, 2 step, ... while below stop.
RECURSIVE RangeFrom(_, _, _)
RangeFrom(v, stop, step) ==
    IF v >= stop THEN <<>> ELSE <<v>> \o RangeFrom(v + step, stop, step)

\* b"".join / extend: the concatenation of a sequence of sequences.
RECURSIVE Concat(_)
Concat(ss) == IF ss = <<>> THEN <<>> ELSE Head(ss) \o Concat(Tail(ss))

\* A scan that also takes the block that ends at the far edge.
ScanStop_Inclusive(side, s) == side - s + 1

\* range(0, height - self._region_size, self._region_size): the stop value.
ScanStop(side, s) == side - s

\* pixels[x, y]: the three bytes of an RGB pixel, named by where they are read.
Pixel(x, y) == <<<<x, y, "r">>, <<x, y, "g">>, <<x, y, "b">>>>

\* for dy in range(s): for dx in range(s): buf.extend(pixels[x + dx, y + dy])
Block(x, y, s) ==
    LET ds == RangeFrom(0, s, 1) IN
    Concat([a \in 1 .. Len(ds) |->
        Concat([b \in 1 .. Len(ds) |-> Pixel(x + ds[b], y + ds[a])])])

\* for y in range(...): for x in range(...): regions.append(bytes(buf))
\* A region is kept with its origin, which the code does not store.
ScanRegions(width, height, s) ==
    LET ys == RangeFrom(0, ScanStop(height, s), s)
        xs == RangeFrom(0, ScanStop(width, s), s) IN
    Concat([a \in 1 .. Len(ys) |->
        [b \in 1 .. Len(xs) |->
            [origin |-> <<xs[b], ys[a]>>,
             bytes |-> Block(xs[b], ys[a], s)]]])

\* random.shuffle(regions): the orders the list may be left in.
Shuffles(regions) ==
    LET n == Len(regions) IN
    {[k \in 1 .. n |-> regions[f[k]]] :
        f \in {g \in [1 .. n -> 1 .. n] :
                  \A a, b \in 1 .. n : a # b => g[a] # g[b]}}

\* _slice_regions(img)
slice_regions ==
    /\ img.pc = "fetched"
    /\ \E shuffled \in
           Shuffles(ScanRegions(img.width, img.height, img.region_size)) :
           img' = [img EXCEPT !.pc = "returned", !.regions = shuffled]
    /\ UNCHANGED <<target_buffer, low_watermark, regions_by_continent,
                   continent_prefetch_lock, continent_prefetching, started,
                   startup_complete, executor, next_job, next_region, hist,
                   pc, loc, rng_vars>>

\* A fetched image of any size up to MaxSide x MaxSide is about to be sliced
\* by a source constructed with some region_size; nothing else runs.
InitSlice ==
    /\ \E w, h \in 1 .. MaxSide, s \in MinRegionSize .. MaxRegionSize :
           img = [pc |-> "fetched", width |-> w, height |-> h,
                  region_size |-> s, regions |-> <<>>]
    /\ target_buffer = TargetBuffer
    /\ low_watermark = LowWatermark
    /\ regions_by_continent = [c \in 1 .. 1 |-> <<>>]
    /\ continent_prefetch_lock = [c \in 1 .. 1 |-> Nobody]
    /\ continent_prefetching = [c \in 1 .. 1 |-> FALSE]
    /\ started = FALSE
    /\ startup_complete = FALSE
    /\ executor = <<>>
    /\ next_job = 0
    /\ next_region = 0
    /\ hist = InitHist(1, 0)
    /\ InitModule
    /\ pc = [t \in Threads |-> "idle"]
    /\ loc = [t \in Threads |-> IdleLocals(0)]

SpecSlice == InitSlice /\ [][slice_regions]_vars

\* ================================================================ claims

\* Work items of partition c between the test-and-set of the prefetching
\* flag and its clearing (the body of _fill_continent_buffer).
BodyPcs == {"size", "loop", "put", "fin_lock", "fin"}
InBody(c) ==
    {i \in 1 .. Len(executor) :
        executor[i].continent = c /\ executor[i].pc \in BodyPcs}
\* Work items of partition c submitted by the low-watermark trigger and not
\* yet ended (queued in the executor or running).
TriggeredInFlight(c) ==
    {i \in 1 .. Len(executor) :
        executor[i].continent = c /\ ~executor[i].initial}

\* C1: for every partition, in every reachable state, at most one refill job
\* is between the test-and-set of the prefetching flag and its clearing.
C1_AtMostOneRefillActive ==
    \A c \in CONTINENTS : Cardinality(InBody(c)) <= 1

\* C1 witness: a job is in the body of its partition while a second job of
\* the same partition holds the lock and is about to test the flag.
C1_Witness ==
    \E i, j \in 1 .. Len(executor) :
        /\ i # j
        /\ executor[i].continent = executor[j].continent
        /\ executor[i].pc \in BodyPcs
        /\ executor[j].pc = "tas"

\* C2: low-watermark triggers on one partition result in one in-flight
\* refill job, not one job per trigger: at no time are two jobs that the
\* trigger submitted for the same partition in flight.
C2_OneInFlightJobPerPartition ==
    \A c \in CONTINENTS : Cardinality(TriggeredInFlight(c)) <= 1

\* C5: for every partition the queue length is >= 0 and equals the number of
\* regions enqueued minus the number dequeued; no region is returned twice
\* and every region returned was enqueued.
C5_QueueAccounting ==
    \A c \in CONTINENTS :
        LET deq == hist.dequeued[c] IN
        /\ qsize(c) >= 0
        /\ qsize(c) = hist.enqueued[c] - Len(deq)
        /\ \A a, b \in 1 .. Len(deq) : a # b => deq[a] # deq[b]
        /\ \A a \in 1 .. Len(deq) : deq[a] \in 1 .. hist.enqueued[c]
        /\ \A a \in 1 .. qsize(c) :
               /\ regions_by_continent[c][a] \in 1 .. hist.enqueued[c]
               /\ \A b \in 1 .. Len(deq) : deq[b] # regions_by_continent[c][a]

\* C5 witness: a consumer has taken a region of a partition while a refill
\* job of that partition is still putting regions and one is queued.
C5_Witness ==
    \E i \in 1 .. Len(executor) :
        LET c == executor[i].continent IN
        /\ executor[i].pc = "put"
        /\ Len(hist.dequeued[c]) >= 1
        /\ qsize(c) >= 1

\* C4: every refill job that sets a partition's prefetching flag sets it back
\* to false, whichever way the job ends: a set flag is eventually cleared.
C4_FlagEventuallyCleared ==
    \A c \in 1 .. MaxContinents :
        [](c \in CONTINENTS /\ continent_prefetching[c]
               => <>(c \in CONTINENTS /\ ~continent_prefetching[c]))

\* C4 witness: a job that an exception has ended is in its finally block,
\* holding the lock with the flag still set.
C4_Witness ==
    \E i \in 1 .. Len(executor) :
        /\ executor[i].pc = "fin"
        /\ executor[i].exit = "raise"
        /\ continent_prefetching[executor[i].continent]

\* Consumptions (collect() calls) the caller of the drain scenario has begun.
Consumptions == 4 - loc[1].budget

\* C3 as stated: after each of the first three consumptions no refill job has
\* been submitted, and after the fourth exactly one has.
C3_NoRefillBeforeFourth ==
    \A c \in CONTINENTS :
        pc[1] = "idle" =>
            /\ Consumptions \in 1 .. 3 => hist.triggered[c] = 0
            /\ Consumptions = 4 => hist.triggered[c] = 1

\* C3 as amended: the first two consumptions (leaving 3, then 2) submit no
\* refill job; the third (leaving 1, below low_watermark) submits exactly
\* one; the fourth submits at most one more, so that after four consumptions
\* one or two refill jobs have been submitted.
C3_RefillAtThird ==
    \A c \in CONTINENTS :
        /\ Consumptions <= 2 => hist.triggered[c] = 0
        /\ pc[1] = "idle" /\ Consumptions = 3 =>
               /\ hist.triggered[c] = 1
               /\ hist.dequeued[c] = <<1, 2, 3>>
        /\ pc[1] = "idle" /\ Consumptions = 4 => hist.triggered[c] \in {1, 2}

\* C3 witness: four consumptions are done, the fourth left the queue of a
\* partition empty (nothing was refilled), and two jobs were submitted.
C3_Witness ==
    \E c \in CONTINENTS :
        /\ pc[1] = "idle"
        /\ Consumptions = 4
        /\ hist.dequeued[c] = <<1, 2, 3, 4>>
        /\ hist.enqueued[c] = 4
        /\ hist.triggered[c] = 2

\* Threads inside the "with lock:" block of rng(), from the acquire to the
\* release at the return.
InCritical == {t \in Threads : pc[t] \notin {"idle", "rng_lock"}}

\* Threads whose request has derived its value and is about to return it.
Responding == {t \in Threads : pc[t] = "rng_respond"}

\* C6: a request never ends in an error when collect() raises: it goes on to
\* derive its value from an empty livecam_entropy; the global lock is free
\* whenever no request is in its critical section; and every request that
\* has started waiting for the lock returns.
C6_CollectFailureTolerated ==
    /\ [](/\ \A t \in Threads : pc[t] # "rng_error"
          /\ \A t \in Responding :
                 loc[t].result = "raised"
                     => /\ loc[t].rq.livecam_entropy = <<>>
                        /\ loc[t].rq.mac.msg.livecam_entropy = <<>>
          /\ InCritical = {} => lock = Nobody)
    /\ \A t \in Threads : [](pc[t] = "rng_lock" => <>(pc[t] = "idle"))

\* A request whose collect() raised is about to return its value.
C6_Witness ==
    \E t \in Responding :
        /\ loc[t].result = "raised"
        /\ loc[t].rq.mac.msg.livecam_entropy = <<>>
        /\ hist.triggered[1] >= 1

\* C7: a request evaluates the rotation predicate once, on the incremented
\* counter; it rotates (a new SESSION_SECRET, last_rotation set to a reading
\* of the clock no earlier than the one of the predicate) exactly if the
\* counter is a multiple of ROTATE_EVERY_REQUESTS or more than
\* ROTATE_EVERY_SECONDS have elapsed; otherwise both globals are as the
\* request found them.
C7_RotationIffPredicate ==
    \A t \in Responding :
        LET rq == loc[t].rq IN
        /\ rq.evals = 1
        /\ rq.pred_counter = rq.tmp + 1
        /\ rq.pred_counter = request_counter
        /\ rq.rotated <=> \/ rq.pred_counter % ROTATE_EVERY_REQUESTS = 0
                          \/ rq.pred_elapsed > ROTATE_EVERY_SECONDS
        /\ rq.rotated =>
               /\ SESSION_SECRET # rq.entry_secret
               /\ last_rotation >= rq.entry_rotation + rq.pred_elapsed
        /\ ~rq.rotated =>
               /\ SESSION_SECRET = rq.entry_secret
               /\ last_rotation = rq.entry_rotation

\* A request that found exactly ROTATE_EVERY_SECONDS elapsed and did not
\* rotate, after a request that rotated because more had elapsed.
C7_Witness ==
    \E t \in Responding :
        /\ ~loc[t].rq.rotated
        /\ loc[t].rq.pred_elapsed = ROTATE_EVERY_SECONDS
        /\ Len(hist.rotations) = 1
        /\ last_rotation > 0

\* C8: the output of a request is keyed by SESSION_SECRET as it is when the
\* tag is computed; in a rotating request that is the secret its own
\* rotation made out of the one the request found, never the one it found.
C8_KeyedByCurrentSecret ==
    \A t \in Responding :
        LET rq == loc[t].rq IN
        /\ rq.mac.key = SESSION_SECRET
        /\ rq.rotated =>
               /\ rq.mac.key # rq.entry_secret
               /\ hist.rotations # <<>>
               /\ hist.rotations[Len(hist.rotations)] =
                      [from |-> rq.entry_secret, to |-> rq.mac.key, by |-> t]

\* A rotating request is about to return its value.
C8_Witness ==
    \E t \in Responding :
        /\ loc[t].rq.rotated
        /\ loc[t].rq.mac.key[2] = loc[t].rq.entry_secret

\* C9: at most one request is inside the critical section and it holds the
\* global lock; the counter values the requests observe are consecutive;
\* every rotation starts from the secret the previous one made, so no two
\* start from the same secret; and the counter, the secret and
\* last_rotation are written only by a step that holds the lock.
C9_CriticalSectionsSerialized ==
    /\ [](/\ Cardinality(InCritical) <= 1
          /\ \A t \in InCritical : lock = Thr(t)
          /\ \A i \in 1 .. Len(hist.observed) :
                 hist.observed[i] = hist.observed[1] + i - 1
          /\ hist.observed # <<>> =>
                 request_counter = hist.observed[Len(hist.observed)]
          /\ \A i \in 1 .. Len(hist.rotations) - 1 :
                 hist.rotations[i + 1].from = hist.rotations[i].to
          /\ \A i, j \in 1 .. Len(hist.rotations) :
                 i # j => hist.rotations[i].from # hist.rotations[j].from)
    /\ [][(\/ request_counter' # request_counter
           \/ SESSION_SECRET' # SESSION_SECRET
           \/ last_rotation' # last_rotation)
              => lock # Nobody /\ lock' = lock]_vars

\* The second request is in the critical section, both requests have
\* rotated, and the other thread has returned.
C9_Witness ==
    /\ Len(hist.observed) = 2
    /\ Len(hist.rotations) = 2
    /\ hist.rotations[1].by # hist.rotations[2].by
    /\ InCritical # {}

\* C10: the value a request returns is below 1: it is zero or has a
\* negative or zero binary exponent (0.sig times 2^exp with sig[1] = 1).
C10_ValueBelowOne ==
    \A t \in Responding :
        loc[t].rq.value.zero \/ loc[t].rq.value.exp <= 0

\* The grid origins of a width x height image for block size s: x a multiple
\* of s strictly less than width - s, y a multiple of s strictly less than
\* height - s.
GridOrigins(width, height, s) ==
    {<<x, y>> \in (0 .. width) \X (0 .. height) :
        /\ x % s = 0 /\ x < width - s
        /\ y % s = 0 /\ y < height - s}

\* The number of multiples of s from 0 that are strictly less than n:
\* (n / s rounded up), none when n <= 0.
StrideCount(n, s) == IF n <= 0 THEN 0 ELSE (n + s - 1) \div s

\* What holds of every result of _slice_regions, whatever the region count:
\* one region per grid origin, each of length s*s*3 and read inside the image.
SliceWellFormed ==
    LET s == img.region_size
        rs == img.regions IN
    /\ {rs[k].origin : k \in 1 .. Len(rs)}
           = GridOrigins(img.width, img.height, s)
    /\ \A a, b \in 1 .. Len(rs) : a # b => rs[a].origin # rs[b].origin
    /\ \A k \in 1 .. Len(rs) :
           /\ Len(rs[k].bytes) = s * s * 3
           /\ \A j \in 1 .. Len(rs[k].bytes) :
                  /\ rs[k].bytes[j][1] \in 0 .. img.width - 1
                  /\ rs[k].bytes[j][2] \in 0 .. img.height - 1
    /\ img.width = 4 /\ img.height = 4 /\ s = 2 => Len(rs) = 1
    /\ img.width <= s \/ img.height <= s => Len(rs) = 0

\* C11 as stated: _slice_regions returns one region per grid origin, that
\* is floor((W-s)/s) x floor((H-s)/s) regions, each of length s*s*3 and read
\* inside the image; a 4x4 image with s = 2 gives 1 region, and an image
\* with W <= s or H <= s gives none.
C11_FloorCount ==
    img.pc = "returned" =>
        /\ SliceWellFormed
        /\ Len(img.regions) =
               IF img.width <= img.region_size \/ img.height <= img.region_size
               THEN 0
               ELSE ((img.width - img.region_size) \div img.region_size)
                        * ((img.height - img.region_size) \div img.region_size)

\* C11 as amended: the same, with the count (W-s)/s rounded up times
\* (H-s)/s rounded up: a last block that starts before W - s and fits in the
\* image is returned although W - s is not a multiple of s.
C11_SliceRegions ==
    img.pc = "returned" =>
        /\ SliceWellFormed
        /\ Len(img.regions) =
               StrideCount(img.width - img.region_size, img.region_size)
                   * StrideCount(img.height - img.region_size, img.region_size)

\* C11 witness: a 5x5 image sliced with s = 2 has come back as 4 regions,
\* the last of them first.
C11_Witness ==
    /\ img.pc = "returned"
    /\ img.width = 5 /\ img.height = 5 /\ img.region_size = 2
    /\ Len(img.regions) = 4
    /\ img.regions[1].origin = <<2, 2>>

\* Threads inside start(), after they have found self._started false.
InStart == {t \in Threads : pc[t] \in {"start_set", "start_submit", "start_wait"}}

\* C12: the readiness event is set only by a start() that has submitted an
\* initial fill job for every partition, in partition order, and has come to
\* the end of its waits; every start() that has found the source not started
\* sets the event, whether its jobs have ended, failed or are still
\* running; and a collect() waiting for readiness goes on to its gets.
C12_ReadinessAfterInitialFill ==
    /\ [][~startup_complete /\ startup_complete' =>
            \E t \in Threads :
                /\ pc[t] = "start_wait"
                /\ pc'[t] # "start_wait"
                /\ Len(loc[t].futures) = NumContinents
                /\ \A c \in CONTINENTS : loc[t].futures[c][1] = c]_vars
    /\ [](startup_complete => started)
    /\ \A t \in Threads : [](t \in InStart => <>startup_complete)
    /\ \A t \in Threads :
           [](pc[t] = "collect_wait" => <>(pc[t] = "collect_get"))

\* C12 witness: the event is set while an initial fill job that an exception
\* has ended is still in its cleanup, and a collect() that found the event
\* unset has gone on after its wait.
C12_Witness ==
    /\ startup_complete
    /\ \E i \in 1 .. Len(executor) :
           executor[i].initial /\ executor[i].exit = "raise"
    /\ \E t \in Threads : loc[t].waited /\ pc[t] \notin {"idle", "collect_wait"}

\* C13: a partition's prefetching flag goes from false to true only in a
\* step of a job that holds the partition's lock and is at its test of the
\* flag, while no job of the partition is in the body, and the job is an
\* initial fill or the queue is below low_watermark at that moment.
C13_FlagSetOnlyWhenNeeded ==
    [][\A c \in CONTINENTS :
           ~continent_prefetching[c] /\ continent_prefetching'[c] =>
               \E i \in 1 .. Len(executor) :
                   /\ executor[i].continent = c
                   /\ executor[i].pc = "tas"
                   /\ continent_prefetch_lock[c] = Job(executor[i].id)
                   /\ InBody(c) = {}
                   /\ executor[i].initial \/ qsize(c) < low_watermark]_vars

\* Job i fetches a candidate in this step.
FetchesCandidate(i) ==
    /\ i <= Len(executor')
    /\ executor[i].pc = "loop"
    /\ executor'[i].id = executor[i].id
    /\ \/ executor'[i].tried = executor[i].tried + 1
       \/ executor'[i].exit = "raise"

\* No candidate is fetched once the queue length is at or above
\* target_buffer.
NoFetchAtTarget ==
    [][\A i \in 1 .. Len(executor) :
           FetchesCandidate(i) =>
               qsize(executor[i].continent) < target_buffer]_vars

\* C14: every region a refill job pushes is pushed in a state where the
\* queue length is below target_buffer, and no candidate is fetched once the
\* queue length is at or above target_buffer.
C14_StopsAtTarget ==
    /\ [][\A c \in CONTINENTS :
              Len(regions_by_continent'[c]) > Len(regions_by_continent[c])
                  => qsize(c) < target_buffer]_vars
    /\ NoFetchAtTarget

\* C15: a partition's lock is held only by a job at its test-and-set or at
\* the clearing of the flag, or by a caller at the trigger's test of the
\* flag: never by a job that is reading the queue size, discovering,
\* fetching or enqueuing, so that the holder's next step releases it.
C15_LockOnlyAroundFlag ==
    \A c \in CONTINENTS :
        LET h == continent_prefetch_lock[c] IN
        /\ h[1] = "job" =>
               \E i \in 1 .. Len(executor) :
                   /\ executor[i].id = h[2]
                   /\ executor[i].continent = c
                   /\ executor[i].pc \in {"tas", "fin"}
        /\ h[1] = "thread" =>
               /\ pc[h[2]] = "check_flag"
               /\ loc[h[2]].ci = c
        /\ \A i \in 1 .. Len(executor) :
               executor[i].continent = c
                   /\ executor[i].pc \in {"size", "loop", "put", "fin_lock"}
                   => h # Job(executor[i].id)

\* C15 witness: a trigger holds the lock of a partition, testing the flag,
\* while a refill job of that partition is between two puts.
C15_Witness ==
    \E t \in Threads, i \in 1 .. Len(executor) :
        /\ pc[t] = "check_flag"
        /\ continent_prefetch_lock[loc[t].ci] = Thr(t)
        /\ executor[i].continent = loc[t].ci
        /\ executor[i].pc = "put"
        /\ continent_prefetching[loc[t].ci]

\* Positions of a caller inside _check_all_continents.
CheckPcs == {"check_size", "check_lock", "check_flag", "check_submit"}

\* Thread t takes a step.
Steps(t) == pc'[t] # pc[t] \/ loc'[t] # loc[t]

\* C16: every collect() goes from its last get into the evaluation of the
\* refill policy, evaluates partition 1, 2, ... in turn and ends (returning
\* or raising) only after the last one; for each partition it goes on to
\* submit a job exactly if the queue length it reads is strictly below
\* low_watermark and the flag it then reads under the lock is false, and
\* jobs are submitted by the trigger in no other way.
C16_PolicyEvaluatedEveryCollect ==
    [][\A t \in Threads :
        /\ pc[t] \notin CheckPcs /\ pc'[t] \in CheckPcs =>
               /\ pc[t] = "collect_get"
               /\ pc'[t] = "check_size"
               /\ loc'[t].ci = 1
        /\ pc[t] = "collect_get" /\ pc'[t] # "collect_get" =>
               pc'[t] = "check_size"
        /\ pc[t] \in CheckPcs /\ pc'[t] \in CheckPcs
               /\ loc'[t].ci # loc[t].ci =>
               /\ loc'[t].ci = loc[t].ci + 1
               /\ pc'[t] = "check_size"
        /\ pc[t] \in CheckPcs /\ pc'[t] \notin CheckPcs =>
               /\ loc[t].ci = NumContinents
               /\ loc'[t].result = IF loc[t].combined = <<>>
                                   THEN "raised" ELSE "returned"
        /\ loc[t].result = "none" /\ loc'[t].result # "none" =>
               pc[t] \in CheckPcs
        /\ pc[t] = "check_size" /\ Steps(t) =>
               (pc'[t] = "check_lock"
                    <=> qsize(loc[t].ci) < low_watermark)
        /\ pc[t] = "check_lock" /\ Steps(t) => pc'[t] = "check_flag"
        /\ pc[t] = "check_flag" /\ Steps(t) =>
               (pc'[t] = "check_submit"
                    <=> ~continent_prefetching[loc[t].ci])
        /\ pc[t] = "check_submit" /\ Steps(t) =>
               /\ hist'.triggered[loc[t].ci] = hist.triggered[loc[t].ci] + 1
               /\ Len(executor') = Len(executor) + 1
               /\ executor'[Len(executor')].continent = loc[t].ci
               /\ executor'[Len(executor')].pc = "pending"
       ]_vars
    /\ [][\A c \in CONTINENTS :
              hist'.triggered[c] # hist.triggered[c] =>
                  \E t \in Threads :
                      /\ pc[t] = "check_submit"
                      /\ loc[t].ci = c
                      /\ Steps(t)]_vars

\* C16 witness: a collect() that took nothing has raised, after its
\* evaluation of the policy submitted a job.
C16_Witness ==
    \E t \in Threads :
        /\ pc[t] = "idle"
        /\ loc[t].result = "raised"
        /\ \E c \in CONTINENTS : hist.triggered[c] >= 1
        /\ \A c \in CONTINENTS : hist.dequeued[c] = <<>>

\* C17: a get of collect() is never disabled; it takes the head of a
\* non-empty partition and appends it to the result, or leaves an empty
\* partition and the result as they are, and goes on to the next partition
\* either way; so the result holds at most one region per partition, in
\* partition order, and collect() raises exactly if it holds none.
C17_NonBlockingConsumption ==
    /\ [](\A t \in Threads :
            LET taken == loc[t].combined IN
            /\ \A a, b \in 1 .. Len(taken) : a < b => taken[a][1] < taken[b][1]
            /\ \A a \in 1 .. Len(taken) :
                   /\ taken[a][1] \in CONTINENTS
                   /\ \E k \in 1 .. Len(hist.dequeued[taken[a][1]]) :
                          hist.dequeued[taken[a][1]][k] = taken[a][2]
            /\ pc[t] = "collect_get" =>
                   /\ ENABLED collect_get(t)
                   /\ \A a \in 1 .. Len(taken) : taken[a][1] < loc[t].ci
            /\ loc[t].result = "raised" => taken = <<>>
            /\ loc[t].result = "returned" => taken # <<>>)
    /\ [][\A t \in Threads :
            pc[t] = "collect_get" /\ Steps(t) =>
                LET c == loc[t].ci
                    q == regions_by_continent[c] IN
                /\ q = <<>> =>
                       /\ loc'[t].combined = loc[t].combined
                       /\ regions_by_continent'[c] = q
                /\ q # <<>> =>
                       /\ loc'[t].combined =
                              Append(loc[t].combined, <<c, Head(q)>>)
                       /\ regions_by_continent'[c] = Tail(q)
                /\ \A d \in CONTINENTS \ {c} :
                       regions_by_continent'[d] = regions_by_continent[d]
                /\ IF c = NumContinents
                   THEN pc'[t] = "check_size"
                   ELSE pc'[t] = "collect_get" /\ loc'[t].ci = c + 1]_vars

\* C17 witness: a collect() has returned the region of the second partition
\* alone, the first partition having been empty.
C17_Witness ==
    \E t \in Threads :
        /\ pc[t] = "idle"
        /\ loc[t].result = "returned"
        /\ Len(loc[t].combined) = 1
        /\ loc[t].combined[1][1] = 2
        /\ hist.dequeued[1] = <<>>

\* C18: within a partition the regions are dequeued in the order of their
\* enqueuing: the k-th region dequeued is the k-th enqueued, and the queue
\* holds the regions enqueued after those, in that order.
C18_Fifo ==
    \A c \in CONTINENTS :
        /\ \A k \in 1 .. Len(hist.dequeued[c]) : hist.dequeued[c][k] = k
        /\ \A a \in 1 .. qsize(c) :
               regions_by_continent[c][a] = Len(hist.dequeued[c]) + a

\* C18 witness: two regions of a partition have been dequeued and a third
\* is queued while a refill job is between two puts.
C18_Witness ==
    \E i \in 1 .. Len(executor) :
        LET c == executor[i].continent IN
        /\ executor[i].pc = "put"
        /\ Len(hist.dequeued[c]) = 2
        /\ qsize(c) >= 1

\* Jobs of partition c that found no candidate URLs.
FoundNoUrls(c) ==
    {i \in 1 .. Len(executor) :
        executor[i].continent = c /\ executor[i].exit = "no_urls"}

\* C19: a job whose discovery gave no URLs (an empty page or a failed
\* request) is on its way through the cleanup: it has fetched nothing, the
\* queue is below target_buffer, the flag is still its own; regions are
\* enqueued only by jobs that took no such exit; and the flag is cleared.
C19_NoUrlsEndsEarly ==
    /\ [](\A c \in CONTINENTS : \A i \in FoundNoUrls(c) :
            /\ executor[i].pc \in {"fin_lock", "fin"}
            /\ executor[i].urls = 0
            /\ executor[i].regions = 0
            /\ continent_prefetching[c]
            /\ InBody(c) = {i}
            /\ qsize(c) < target_buffer)
    /\ [][\A c \in CONTINENTS :
              hist'.enqueued[c] # hist.enqueued[c] =>
                  /\ hist'.enqueued[c] = hist.enqueued[c] + 1
                  /\ \E i \in 1 .. Len(executor) :
                         /\ executor[i].continent = c
                         /\ executor[i].pc = "put"
                         /\ executor[i].exit = "none"]_vars
    /\ \A c \in 1 .. MaxContinents :
           [](c \in CONTINENTS /\ FoundNoUrls(c) # {}
                  => <>(c \in CONTINENTS /\ ~continent_prefetching[c]))

\* C19 witness: a job that the trigger submitted has found no URLs and is
\* about to clear the flag, the partition's queue being empty.
C19_Witness ==
    \E c \in CONTINENTS : \E i \in FoundNoUrls(c) :
        /\ ~executor[i].initial
        /\ executor[i].pc = "fin"
        /\ qsize(c) = 0
        /\ hist.enqueued[c] = 0

\* Job i is in the for loop over its candidates and takes a step.
LoopStep(i) ==
    /\ executor[i].pc = "loop"
    /\ i <= Len(executor')
    /\ executor'[i].id = executor[i].id
    /\ executor'[i] # executor[i]

\* C20: a step of a job in its loop over the candidates either tries a
\* candidate that puts nothing (the fetch or the decoding failed, or the
\* image gave no region) and stays in the loop with the queue as it was, or
\* tries one whose regions it goes on to put, or leaves the loop; it leaves
\* the loop only with every candidate tried or with the queue length at or
\* above target_buffer, unless an exception escapes the job.
C20_FailedCandidateSkipped ==
    [][\A i \in 1 .. Len(executor) :
        LoopStep(i) =>
            LET c == executor[i].continent
                j == executor[i]
                k == executor'[i] IN
            /\ k.pc \in {"loop", "put", "fin_lock"}
            /\ k.pc = "loop" =>
                   /\ j.urls > 0 /\ k.urls = j.urls - 1
                   /\ k.tried = j.tried + 1
                   /\ k.regions = 0
                   /\ k.exit = "none"
                   /\ regions_by_continent'[c] = regions_by_continent[c]
                   /\ hist'.enqueued[c] = hist.enqueued[c]
            /\ k.pc = "put" =>
                   /\ j.urls > 0 /\ k.urls = j.urls - 1
                   /\ k.regions >= 1
            /\ k.pc = "fin_lock" =>
                   \/ k.exit = "exhausted" /\ j.urls = 0
                   \/ k.exit = "target_reached" /\ qsize(c) >= target_buffer
                   \/ k.exit = "raise"]_vars

\* C20 witness: the first candidate of a job has put nothing, and the job
\* is putting the regions of its second candidate into the empty queue.
C20_Witness ==
    \E i \in 1 .. Len(executor) :
        LET c == executor[i].continent IN
        /\ executor[i].pc = "put"
        /\ executor[i].tried = 2
        /\ hist.enqueued[c] = 0
        /\ next_region = executor[i].regions

\* Work item i takes a step: in the next state it has ended, or its record
\* differs.
JobSteps(i) ==
    \A k \in 1 .. Len(executor') :
        executor'[k].id = executor[i].id => executor'[k] # executor[i]

\* A step in which work item i tests the flag of its partition, finds it set
\* and returns.
DuplicateReturns(i) ==
    /\ executor[i].pc = "tas"
    /\ continent_prefetching[executor[i].continent]
    /\ JobSteps(i)

\* C21: a refill job that finds its partition's prefetching flag set returns
\* in that step and leaves the flag set, the queue as it was and the job in
\* the body as it was; a job enters the body only by setting the flag, and
\* the flag is cleared only by the last step of a job in the body; so, in
\* every reachable state, the flag of a partition is set exactly when one job
\* is between its test-and-set and its cleanup.
C21_DuplicateLeavesFlag ==
    /\ [](\A c \in CONTINENTS :
              continent_prefetching[c] <=> Cardinality(InBody(c)) = 1)
    /\ [][\A i \in 1 .. Len(executor) :
              LET c == executor[i].continent
                  id == executor[i].id IN
              /\ DuplicateReturns(i) =>
                     /\ id \notin JobIds'
                     /\ continent_prefetching'[c]
                     /\ regions_by_continent'[c] = regions_by_continent[c]
                     /\ hist'.enqueued[c] = hist.enqueued[c]
                     /\ \A k \in InBody(c) :
                            \E m \in 1 .. Len(executor') :
                                executor'[m] = executor[k]
              /\ (\E m \in 1 .. Len(executor') :
                      /\ executor'[m].id = id
                      /\ executor'[m].pc \in BodyPcs
                      /\ executor[i].pc \notin BodyPcs) =>
                     /\ executor[i].pc = "tas"
                     /\ ~continent_prefetching[c]
                     /\ continent_prefetching'[c]
              /\ (continent_prefetching[c] /\ ~continent_prefetching'[c]) =>
                     \E k \in InBody(c) :
                         /\ executor[k].pc = "fin"
                         /\ executor[k].id \notin JobIds']_vars

\* C21 witness: of the two jobs submitted for a partition, one has returned
\* at its test of the flag; the other, which had set the flag, is still
\* putting regions with the flag set.
C21_Witness ==
    /\ next_job = 2
    /\ Len(executor) = 1
    /\ executor[1].pc = "put"
    /\ hist.duplicate[executor[1].continent]
    /\ continent_prefetching[executor[1].continent]
    /\ qsize(executor[1].continent) >= 1

====
